---- MODULE Spec2Model ----
(***************************************************************************)
(* awsume: awsumepy/lib/aws.py -- acquisition of temporary AWS credentials *)
(* (assume_role, get_session_token, get_account_id) on top of the session  *)
(* cache (cache_lib), the MFA prompt (profile_lib.get_mfa_token), the STS   *)
(* client (boto3) and the notification sink (safe_print).                  *)
(*                                                                         *)
(* Every invocation is a small process: it moves from one blocking call of *)
(* the source (cache read, client construction, prompt, remote call, cache *)
(* write) to the next.  Python dicts are records; an absent key is a field *)
(* that is not in the record's DOMAIN; None and '' are the strings below.  *)
(* A datetime is [t |-> instant, off |-> utc offset]; its wall clock       *)
(* reading is t + off.                                                     *)
(***************************************************************************)
EXTENDS Integers, Sequences, FiniteSets, TLC

\* ---------------------------------------------------------------- bounds
MaxTime == 1
MaxCalls == 2

\* ------------------------------------------------------------- constants
LocalOffset == 1

None == "None"
EmptyStr == ""
EmptyDict == [x \in {} |-> None]

Procs == {"main", "other"}
Main == "main"
AccessKeyIds == {"AKIA1", "AKIA2"}
Regions == {"us-east-1", "eu-west-1"}
MfaSerials == {None, EmptyStr, "arn:aws:iam::1:mfa/u"}
MfaTokens == {None, EmptyStr, "123456"}
PromptTokens == {"654321"}
ExternalIds == {None, EmptyStr, "ext"}
RoleDurations == {<<>>, <<0>>, <<900>>}
Durations == {1}
ErrorMessages == {"AccessDenied"}
AccountIds == {"111122223333"}

\* ------------------------------------------------------- python helpers
\* truthiness of an optional string: None and '' are falsy
Truthy(s) == s # None /\ s # EmptyStr

\* truthiness of an optional integer: None (<<>>) and 0 are falsy
TruthyInt(n) == n # <<>> /\ n[1] # 0

\* d[k] = v on a dict
SetItem(d, k, v) == (k :> v) @@ d

\* datetime.astimezone(dateutil.tz.tzlocal()): same instant, local offset
AsLocalTime(dt) == [t |-> dt.t, off |-> LocalOffset]

\* the wall clock reading of a datetime
WallClock(dt) == dt.t + dt.off

\* parse_time: the local wall clock reading, rendered without its offset
parse_time(date_time) == WallClock(AsLocalTime(date_time))

\* ------------------------------------------------------------ cache_lib
\* line 62 with one file name for every source key
cache_file_name_shared(source_credentials) ==
    <<"aws-credentials-", "AKIA1">>

cache_file_name(source_credentials) ==
    <<"aws-credentials-", source_credentials.AccessKeyId>>

CacheFileNames == {<<"aws-credentials-", k>> : k \in AccessKeyIds}

\* the stored text of a session: Expiration as wall clock plus offset
SerializeSession(session) ==
    IF "Expiration" \in DOMAIN session
    THEN [session EXCEPT !.Expiration = <<WallClock(@), @.off>>]
    ELSE session

\* the session parsed back: Expiration as an aware datetime, in local time
ParseSession(text) ==
    IF "Expiration" \in DOMAIN text
    THEN [text EXCEPT !.Expiration = AsLocalTime([t |-> @[1] - @[2], off |-> @[2]])]
    ELSE text

\* read_aws_cache: the record under the name, or an empty dict
read_aws_cache(store, name) == ParseSession(store[name])

\* write_aws_cache: overwrite the record under the name; a failing storage
\* write is swallowed and leaves the store as it was
write_aws_cache(store, name, session, storage_ok) ==
    IF storage_ok THEN [store EXCEPT ![name] = SerializeSession(session)] ELSE store

RequiredFields == {"AccessKeyId", "SecretAccessKey", "SessionToken", "Expiration"}

\* valid_cache_session: present, fully populated, Expiration strictly future
valid_cache_session(session, instant) ==
    /\ RequiredFields \subseteq DOMAIN session
    /\ session.Expiration.t > instant

\* ------------------------------------------------------ the STS service
\* temporary credentials as the service issues them: fresh key material
\* (the n-th the service has issued), Expiration in UTC
IssuedCredentials(instant, n) ==
    { [AccessKeyId |-> <<"ASIA", n>>, SecretAccessKey |-> <<"secret", n>>,
       SessionToken |-> <<"token", n>>,
       Expiration |-> [t |-> instant + d, off |-> 0]] : d \in Durations }

\* what one call of the service can come back with: an error raised, a
\* response without Credentials, Credentials without Expiration, or a full
\* response
STSOutcomes(instant, n) ==
    { [raised |-> TRUE, message |-> m] : m \in ErrorMessages }
    \cup { [raised |-> FALSE, response |-> EmptyDict] }
    \cup { [raised |-> FALSE,
            response |-> [Credentials |-> [AccessKeyId |-> <<"ASIA", n>>,
                                           SecretAccessKey |-> <<"secret", n>>,
                                           SessionToken |-> <<"token", n>>]]] }
    \cup { [raised |-> FALSE, response |-> [Credentials |-> c]] :
            c \in IssuedCredentials(instant, n) }

\* the service has issued one more set of credentials
IssuedAfter(n, o) ==
    IF ~o.raised /\ "Credentials" \in DOMAIN o.response THEN n + 1 ELSE n

\* lines 80-84 / 51-55: .get('Credentials'), normalise Expiration, set Region;
\* any exception on the way becomes the message of the raised error
SessionOf(o, region) ==
    IF o.raised
    THEN [ok |-> FALSE, message |-> o.message]
    ELSE IF "Credentials" \notin DOMAIN o.response
    THEN [ok |-> FALSE, message |-> "'NoneType' object is not subscriptable"]
    ELSE IF "Expiration" \notin DOMAIN o.response.Credentials
    THEN [ok |-> FALSE, message |-> "'Expiration'"]
    ELSE [ok |-> TRUE,
          session |-> SetItem([o.response.Credentials
                                  EXCEPT !.Expiration = AsLocalTime(@)],
                              "Region", region)]

\* ---------------------------------------------------------------- state
VARIABLES
    cache,          \* cache store: file name -> serialized session (or empty)
    now,            \* the current instant
    ncalls,         \* invocations started so far
    issued,         \* credentials the STS service has issued so far
    prev,           \* what the call that returned last left in the cache
    pc,             \* per invocation: position in the source
    args,           \* per invocation: the operation and its arguments
    cache_session,  \* per invocation: what read_aws_cache returned
    kwargs,         \* per invocation: the keyword arguments of the remote call
    prompted,       \* per invocation: what get_mfa_token returned, if called
    request,        \* per invocation: what the remote service received
    outcome,        \* per invocation: what the remote service came back with
    session,        \* per invocation: user_session / role_session
    stored,         \* per invocation: the storage write of this call went through
    log,            \* per invocation: the collaborators called, in order
    stdout,         \* per invocation: what safe_print was given
    ret             \* per invocation: how the call ended

vars == <<cache, now, ncalls, issued, prev, pc, args, cache_session, kwargs, prompted,
          request, outcome, session, stored, log, stdout, ret>>

NoArgs == [op |-> "none"]
NoRet == [kind |-> "none"]
NoPrev == [op |-> "none"]
NoOutcome == [raised |-> FALSE]

Returned(v) == [kind |-> "return", value |-> v]
Raised(e, m) == [kind |-> "raise", etype |-> e, message |-> m]

Init ==
    /\ cache = [n \in CacheFileNames |-> EmptyDict]
    /\ now = 0
    /\ ncalls = 0
    /\ issued = 0
    /\ prev = NoPrev
    /\ pc = [p \in Procs |-> "idle"]
    /\ args = [p \in Procs |-> NoArgs]
    /\ cache_session = [p \in Procs |-> EmptyDict]
    /\ kwargs = [p \in Procs |-> EmptyDict]
    /\ prompted = [p \in Procs |-> None]
    /\ request = [p \in Procs |-> EmptyDict]
    /\ outcome = [p \in Procs |-> NoOutcome]
    /\ session = [p \in Procs |-> EmptyDict]
    /\ stored = [p \in Procs |-> FALSE]
    /\ log = [p \in Procs |-> <<>>]
    /\ stdout = [p \in Procs |-> <<>>]
    /\ ret = [p \in Procs |-> NoRet]

\* the single-threaded call model: every call is made by the main thread,
\* one after the other
SingleThreaded(p) == p = Main

\* the clock moves on between the steps of the program
Tick ==
    /\ now < MaxTime
    /\ now' = now + 1
    /\ UNCHANGED <<issued, cache, ncalls, prev, pc, args, cache_session, kwargs, prompted,
                   request, outcome, session, stored, log, stdout, ret>>

\* ---------------------------------------------------- get_session_token
GetSessionTokenArgs ==
    { [op |-> "get_session_token", source_credentials |-> [AccessKeyId |-> k],
       region |-> r, mfa_serial |-> ms, mfa_token |-> mt, ignore_cache |-> ic] :
        k \in AccessKeyIds, r \in Regions, ms \in MfaSerials, mt \in MfaTokens,
        ic \in BOOLEAN }

Begin(p, a, first) ==
    /\ pc[p] = "idle"
    /\ ncalls < MaxCalls
    /\ ncalls' = ncalls + 1
    /\ pc' = [pc EXCEPT ![p] = first]
    /\ args' = [args EXCEPT ![p] = a]
    /\ UNCHANGED <<issued, cache, now, prev, cache_session, kwargs, prompted, request,
                   outcome, session, stored, log, stdout, ret>>

CallGetSessionToken(p) ==
    /\ SingleThreaded(p)
    /\ \E a \in GetSessionTokenArgs : Begin(p, a, "gst_cache")

\* line 64 with the flag inverted
UseCacheInverted(a, read, instant) ==
    valid_cache_session(read, instant) /\ a.ignore_cache

\* line 64 without the flag
UseCacheAlways(a, read, instant) ==
    valid_cache_session(read, instant)

\* line 64 with any complete record used, expired or not
UseCacheAnyRecord(a, read, instant) ==
    RequiredFields \subseteq DOMAIN read /\ ~a.ignore_cache

\* line 64: is the cached session used
UseCache(a, read, instant) ==
    valid_cache_session(read, instant) /\ ~a.ignore_cache

\* lines 65-67 with the request's region stamped on the cached session
GstCacheHitRegion(a, read) ==
    [stdout |-> <<parse_time(read.Expiration)>>,
     ret |-> Returned(SetItem(read, "Region", a.region))]

\* lines 65-67: print the expiration of the cached session and return it
GstCacheHit(a, read) ==
    [stdout |-> <<parse_time(read.Expiration)>>, ret |-> Returned(read)]

\* lines 62-67 with the read skipped when ignore_cache is set
GstCacheSkipRead(p) ==
    /\ pc[p] = "gst_cache"
    /\ LET name == cache_file_name(args[p].source_credentials)
           read == IF args[p].ignore_cache THEN EmptyDict
                   ELSE read_aws_cache(cache, name)
       IN /\ cache_session' = [cache_session EXCEPT ![p] = read]
          /\ IF UseCache(args[p], read, now)
             THEN /\ log' = [log EXCEPT ![p] = @ \o <<"cache_read", "print">>]
                  /\ stdout' = [stdout EXCEPT ![p] = @ \o GstCacheHit(args[p], read).stdout]
                  /\ ret' = [ret EXCEPT ![p] = GstCacheHit(args[p], read).ret]
                  /\ pc' = [pc EXCEPT ![p] = "done"]
             ELSE /\ log' = [log EXCEPT ![p] = IF args[p].ignore_cache THEN @
                                                ELSE Append(@, "cache_read")]
                  /\ pc' = [pc EXCEPT ![p] = "gst_client"]
                  /\ UNCHANGED <<stdout, ret>>
    /\ UNCHANGED <<issued, cache, now, ncalls, prev, args, kwargs, prompted, request,
                   outcome, session, stored>>

\* lines 62-67: read the cache; a valid record is printed and returned
GstCache(p) ==
    /\ pc[p] = "gst_cache"
    /\ LET name == cache_file_name(args[p].source_credentials)
           read == read_aws_cache(cache, name)
       IN /\ cache_session' = [cache_session EXCEPT ![p] = read]
          /\ IF UseCache(args[p], read, now)
             THEN /\ log' = [log EXCEPT ![p] = @ \o <<"cache_read", "print">>]
                  /\ stdout' = [stdout EXCEPT ![p] = @ \o GstCacheHit(args[p], read).stdout]
                  /\ ret' = [ret EXCEPT ![p] = GstCacheHit(args[p], read).ret]
                  /\ pc' = [pc EXCEPT ![p] = "done"]
             ELSE /\ log' = [log EXCEPT ![p] = Append(@, "cache_read")]
                  /\ pc' = [pc EXCEPT ![p] = "gst_client"]
                  /\ UNCHANGED <<stdout, ret>>
    /\ UNCHANGED <<issued, cache, now, ncalls, prev, args, kwargs, prompted, request,
                   outcome, session, stored>>

\* boto3.session.Session(...).client('sts'): the client, or an error of the
\* library (a region name it does not accept)
ClientOutcomes == {"client", "InvalidRegionError"}

\* lines 69-75: build the STS client, outside the try block
GstClient(p) ==
    /\ pc[p] = "gst_client"
    /\ \E c \in ClientOutcomes :
        /\ log' = [log EXCEPT ![p] = Append(@, "client")]
        /\ IF c = "client"
           THEN /\ pc' = [pc EXCEPT ![p] = "gst_args"]
                /\ UNCHANGED ret
           ELSE /\ pc' = [pc EXCEPT ![p] = "done"]
                /\ ret' = [ret EXCEPT ![p] = Raised(c, "client")]
    /\ UNCHANGED <<issued, cache, now, ncalls, prev, args, cache_session, kwargs, prompted,
                   request, outcome, session, stored, stdout>>

\* the prompt decided on the token alone, mfa_serial not looked at
NeedsPromptNoSerial(a) == ~Truthy(a.mfa_token)

\* mfa_token or profile_lib.get_mfa_token(): is the prompt needed
NeedsPrompt(a) == Truthy(a.mfa_serial) /\ ~Truthy(a.mfa_token)

\* lines 78-79: the keyword arguments of get_session_token, both always given
GstKwargs(a, token) ==
    [SerialNumber |-> IF Truthy(a.mfa_serial) THEN a.mfa_serial ELSE None,
     TokenCode |-> IF ~Truthy(a.mfa_serial) THEN None
                   ELSE IF Truthy(a.mfa_token) THEN a.mfa_token ELSE token]

\* lines 78-79: evaluate the arguments, prompting for the token when needed
GstArgs(p) ==
    /\ pc[p] = "gst_args"
    /\ IF NeedsPrompt(args[p])
       THEN \E token \in PromptTokens :
              /\ prompted' = [prompted EXCEPT ![p] = token]
              /\ kwargs' = [kwargs EXCEPT ![p] = GstKwargs(args[p], token)]
              /\ log' = [log EXCEPT ![p] = Append(@, "prompt")]
       ELSE /\ kwargs' = [kwargs EXCEPT ![p] = GstKwargs(args[p], None)]
            /\ UNCHANGED <<prompted, log>>
    /\ pc' = [pc EXCEPT ![p] = "gst_remote"]
    /\ UNCHANGED <<issued, cache, now, ncalls, prev, args, cache_session, request, outcome,
                   session, stored, stdout, ret>>

\* lines 83-84 raising the error kind of assume_role
GstFailAsRole(got) == Raised("RoleAuthenticationError", got.message)

\* lines 83-84: raise UserAuthenticationError(str(e))
GstFail(got) == Raised("UserAuthenticationError", got.message)

\* lines 77-84 with the credentials written to the cache as soon as they
\* are received, before Expiration is looked at
GstRemoteWriteEarly(p) ==
    /\ pc[p] = "gst_remote"
    /\ \E o \in STSOutcomes(now, issued) :
        LET got == SessionOf(o, args[p].region)
        IN /\ request' = [request EXCEPT ![p] = kwargs[p]]
           /\ outcome' = [outcome EXCEPT ![p] = o]
           /\ issued' = IssuedAfter(issued, o)
           /\ log' = [log EXCEPT ![p] = Append(@, "remote")]
           /\ cache' = IF ~o.raised /\ "Credentials" \in DOMAIN o.response
                       THEN write_aws_cache(cache, cache_file_name(args[p].source_credentials),
                                            o.response.Credentials, TRUE)
                       ELSE cache
           /\ IF got.ok
              THEN /\ session' = [session EXCEPT ![p] = got.session]
                   /\ pc' = [pc EXCEPT ![p] = "gst_store"]
                   /\ UNCHANGED ret
              ELSE /\ ret' = [ret EXCEPT ![p] = GstFail(got)]
                   /\ pc' = [pc EXCEPT ![p] = "done"]
                   /\ UNCHANGED session
    /\ UNCHANGED <<now, ncalls, prev, args, cache_session, kwargs, prompted,
                   stored, stdout>>

\* lines 77-84 with a failed remote call tried a second time
GstRemoteRetry(p) ==
    /\ pc[p] = "gst_remote"
    /\ \E o \in STSOutcomes(now, issued) :
        LET got == SessionOf(o, args[p].region)
        IN /\ request' = [request EXCEPT ![p] = kwargs[p]]
           /\ outcome' = [outcome EXCEPT ![p] = o]
           /\ issued' = IssuedAfter(issued, o)
           /\ log' = [log EXCEPT ![p] = Append(@, "remote")]
           /\ IF got.ok
              THEN /\ session' = [session EXCEPT ![p] = got.session]
                   /\ pc' = [pc EXCEPT ![p] = "gst_store"]
                   /\ UNCHANGED ret
              ELSE IF "remote" \in { log[p][i] : i \in DOMAIN log[p] }
              THEN /\ ret' = [ret EXCEPT ![p] = GstFail(got)]
                   /\ pc' = [pc EXCEPT ![p] = "done"]
                   /\ UNCHANGED session
              ELSE UNCHANGED <<ret, pc, session>>
    /\ UNCHANGED <<cache, now, ncalls, prev, args, cache_session, kwargs, prompted,
                   stored, stdout>>

\* lines 77-84: the remote call; every failure becomes UserAuthenticationError
GstRemote(p) ==
    /\ pc[p] = "gst_remote"
    /\ \E o \in STSOutcomes(now, issued) :
        LET got == SessionOf(o, args[p].region)
        IN /\ request' = [request EXCEPT ![p] = kwargs[p]]
           /\ outcome' = [outcome EXCEPT ![p] = o]
           /\ issued' = IssuedAfter(issued, o)
           /\ log' = [log EXCEPT ![p] = Append(@, "remote")]
           /\ IF got.ok
              THEN /\ session' = [session EXCEPT ![p] = got.session]
                   /\ pc' = [pc EXCEPT ![p] = "gst_store"]
                   /\ UNCHANGED ret
              ELSE /\ ret' = [ret EXCEPT ![p] = GstFail(got)]
                   /\ pc' = [pc EXCEPT ![p] = "done"]
                   /\ UNCHANGED session
    /\ UNCHANGED <<cache, now, ncalls, prev, args, cache_session, kwargs, prompted,
                   stored, stdout>>

\* lines 86-89 with a failed storage write raised to the caller
GstReturnIfStored(user_session, storage_ok) ==
    IF storage_ok
    THEN [log |-> <<"cache_write", "print">>,
          stdout |-> <<parse_time(user_session.Expiration)>>,
          ret |-> Returned(user_session)]
    ELSE [log |-> <<"cache_write">>,
          stdout |-> <<>>,
          ret |-> Raised("OSError", "cache")]

\* lines 87-89: print when the session has an Expiration, and return it
GstReturn(user_session, storage_ok) ==
    [log |-> IF "Expiration" \in DOMAIN user_session
             THEN <<"cache_write", "print">> ELSE <<"cache_write">>,
     stdout |-> IF "Expiration" \in DOMAIN user_session
                THEN <<parse_time(user_session.Expiration)>> ELSE <<>>,
     ret |-> Returned(user_session)]

\* lines 85-89 with the write skipped when a record is already stored
GstStoreKeepExisting(p) ==
    /\ pc[p] = "gst_store"
    /\ \E storage_ok \in BOOLEAN :
        LET name == cache_file_name(args[p].source_credentials)
            end == GstReturn(session[p], storage_ok)
        IN /\ cache' = IF cache[name] = EmptyDict
                       THEN write_aws_cache(cache, name, session[p], storage_ok)
                       ELSE cache
           /\ stored' = [stored EXCEPT ![p] = storage_ok]
           /\ log' = [log EXCEPT ![p] = @ \o end.log]
           /\ stdout' = [stdout EXCEPT ![p] = @ \o end.stdout]
           /\ ret' = [ret EXCEPT ![p] = end.ret]
           /\ pc' = [pc EXCEPT ![p] = "done"]
    /\ UNCHANGED <<issued, now, ncalls, prev, args, cache_session, kwargs, prompted, request,
                   outcome, session>>

\* lines 85-89 with the credentials of the response written as they came
GstStoreRaw(p) ==
    /\ pc[p] = "gst_store"
    /\ \E storage_ok \in BOOLEAN :
        LET name == cache_file_name(args[p].source_credentials)
            end == GstReturn(session[p], storage_ok)
        IN /\ cache' = write_aws_cache(cache, name, outcome[p].response.Credentials,
                                       storage_ok)
           /\ stored' = [stored EXCEPT ![p] = storage_ok]
           /\ log' = [log EXCEPT ![p] = @ \o end.log]
           /\ stdout' = [stdout EXCEPT ![p] = @ \o end.stdout]
           /\ ret' = [ret EXCEPT ![p] = end.ret]
           /\ pc' = [pc EXCEPT ![p] = "done"]
    /\ UNCHANGED <<issued, now, ncalls, prev, args, cache_session, kwargs, prompted, request,
                   outcome, session>>

\* lines 85-89: write the cache, print, return
GstStore(p) ==
    /\ pc[p] = "gst_store"
    /\ \E storage_ok \in BOOLEAN :
        LET name == cache_file_name(args[p].source_credentials)
            end == GstReturn(session[p], storage_ok)
        IN /\ cache' = write_aws_cache(cache, name, session[p], storage_ok)
           /\ stored' = [stored EXCEPT ![p] = storage_ok]
           /\ log' = [log EXCEPT ![p] = @ \o end.log]
           /\ stdout' = [stdout EXCEPT ![p] = @ \o end.stdout]
           /\ ret' = [ret EXCEPT ![p] = end.ret]
           /\ pc' = [pc EXCEPT ![p] = "done"]
    /\ UNCHANGED <<issued, now, ncalls, prev, args, cache_session, kwargs, prompted, request,
                   outcome, session>>

\* ---------------------------------------------------------- assume_role
AssumeRoleArgs ==
    { [op |-> "assume_role", source_credentials |-> [AccessKeyId |-> "AKIA1"],
       role_arn |-> "arn:aws:iam::1:role/r", session_name |-> "awsume-session",
       region |-> r, external_id |-> x, role_duration |-> d,
       mfa_serial |-> ms, mfa_token |-> mt] :
        r \in Regions, x \in ExternalIds, d \in RoleDurations,
        ms \in MfaSerials, mt \in MfaTokens }

CallAssumeRole(p) ==
    /\ SingleThreaded(p)
    /\ \E a \in AssumeRoleArgs : Begin(p, a, "ar_client")

\* lines 33-40: build the STS client, outside the try block
ArClient(p) ==
    /\ pc[p] = "ar_client"
    /\ \E c \in ClientOutcomes :
        /\ log' = [log EXCEPT ![p] = Append(@, "client")]
        /\ IF c = "client"
           THEN /\ pc' = [pc EXCEPT ![p] = "ar_kwargs"]
                /\ UNCHANGED ret
           ELSE /\ pc' = [pc EXCEPT ![p] = "done"]
                /\ ret' = [ret EXCEPT ![p] = Raised(c, "client")]
    /\ UNCHANGED <<issued, cache, now, ncalls, prev, args, cache_session, kwargs, prompted,
                   request, outcome, session, stored, stdout>>

\* lines 43-50 with TokenCode taken from mfa_token alone
ArKwargsSuppliedOnly(a, token) ==
    LET base == [RoleSessionName |-> a.session_name, RoleArn |-> a.role_arn]
        ext == IF Truthy(a.external_id)
               THEN SetItem(base, "ExternalId", a.external_id) ELSE base
        dur == IF TruthyInt(a.role_duration)
               THEN SetItem(ext, "DurationSeconds", a.role_duration[1]) ELSE ext
    IN IF Truthy(a.mfa_serial)
       THEN SetItem(SetItem(dur, "SerialNumber", a.mfa_serial), "TokenCode", a.mfa_token)
       ELSE dur

\* lines 43-50 with DurationSeconds added whenever role_duration is not None
ArKwargsDurationNotNone(a, token) ==
    LET base == [RoleSessionName |-> a.session_name, RoleArn |-> a.role_arn]
        ext == IF Truthy(a.external_id)
               THEN SetItem(base, "ExternalId", a.external_id) ELSE base
        dur == IF a.role_duration # <<>>
               THEN SetItem(ext, "DurationSeconds", a.role_duration[1]) ELSE ext
    IN IF Truthy(a.mfa_serial)
       THEN SetItem(SetItem(dur, "SerialNumber", a.mfa_serial), "TokenCode",
                    IF Truthy(a.mfa_token) THEN a.mfa_token ELSE token)
       ELSE dur

\* lines 43-50: the keyword arguments of assume_role
ArKwargs(a, token) ==
    LET base == [RoleSessionName |-> a.session_name, RoleArn |-> a.role_arn]
        ext == IF Truthy(a.external_id)
               THEN SetItem(base, "ExternalId", a.external_id) ELSE base
        dur == IF TruthyInt(a.role_duration)
               THEN SetItem(ext, "DurationSeconds", a.role_duration[1]) ELSE ext
    IN IF Truthy(a.mfa_serial)
       THEN SetItem(SetItem(dur, "SerialNumber", a.mfa_serial), "TokenCode",
                    IF Truthy(a.mfa_token) THEN a.mfa_token ELSE token)
       ELSE dur

\* lines 43-50: assemble the arguments, prompting for the token when needed
ArArgs(p) ==
    /\ pc[p] = "ar_kwargs"
    /\ IF NeedsPrompt(args[p])
       THEN \E token \in PromptTokens :
              /\ prompted' = [prompted EXCEPT ![p] = token]
              /\ kwargs' = [kwargs EXCEPT ![p] = ArKwargs(args[p], token)]
              /\ log' = [log EXCEPT ![p] = Append(@, "prompt")]
       ELSE /\ kwargs' = [kwargs EXCEPT ![p] = ArKwargs(args[p], None)]
            /\ UNCHANGED <<prompted, log>>
    /\ pc' = [pc EXCEPT ![p] = "ar_remote"]
    /\ UNCHANGED <<issued, cache, now, ncalls, prev, args, cache_session, request, outcome,
                   session, stored, stdout, ret>>

\* lines 51-58 with str(e) left out of the raised error
ArEndNoMessage(got) ==
    IF got.ok
    THEN [session |-> got.session,
          log |-> <<"remote", "print">>,
          stdout |-> <<parse_time(got.session.Expiration)>>,
          ret |-> Returned(got.session)]
    ELSE [session |-> EmptyDict,
          log |-> <<"remote">>,
          stdout |-> <<>>,
          ret |-> Raised("RoleAuthenticationError", EmptyStr)]

\* lines 51-58: the remote call; every failure becomes RoleAuthenticationError,
\* a success is printed and returned
ArEnd(got) ==
    IF got.ok
    THEN [session |-> got.session,
          log |-> <<"remote", "print">>,
          stdout |-> <<parse_time(got.session.Expiration)>>,
          ret |-> Returned(got.session)]
    ELSE [session |-> EmptyDict,
          log |-> <<"remote">>,
          stdout |-> <<>>,
          ret |-> Raised("RoleAuthenticationError", got.message)]

\* lines 51-58 with the session written to the cache as get_session_token does
ArRemoteCaching(p) ==
    /\ pc[p] = "ar_remote"
    /\ \E o \in STSOutcomes(now, issued) :
        LET got == SessionOf(o, args[p].region)
            end == ArEnd(got)
        IN /\ request' = [request EXCEPT ![p] = kwargs[p]]
           /\ outcome' = [outcome EXCEPT ![p] = o]
           /\ issued' = IssuedAfter(issued, o)
           /\ session' = [session EXCEPT ![p] = end.session]
           /\ cache' = IF got.ok
                       THEN write_aws_cache(cache, cache_file_name(args[p].source_credentials),
                                            got.session, TRUE)
                       ELSE cache
           /\ log' = [log EXCEPT ![p] = @ \o end.log]
           /\ stdout' = [stdout EXCEPT ![p] = @ \o end.stdout]
           /\ ret' = [ret EXCEPT ![p] = end.ret]
           /\ pc' = [pc EXCEPT ![p] = "done"]
    /\ UNCHANGED <<now, ncalls, prev, args, cache_session, kwargs, prompted, stored>>

ArRemote(p) ==
    /\ pc[p] = "ar_remote"
    /\ \E o \in STSOutcomes(now, issued) :
        LET end == ArEnd(SessionOf(o, args[p].region))
        IN /\ request' = [request EXCEPT ![p] = kwargs[p]]
           /\ outcome' = [outcome EXCEPT ![p] = o]
           /\ issued' = IssuedAfter(issued, o)
           /\ session' = [session EXCEPT ![p] = end.session]
           /\ log' = [log EXCEPT ![p] = @ \o end.log]
           /\ stdout' = [stdout EXCEPT ![p] = @ \o end.stdout]
           /\ ret' = [ret EXCEPT ![p] = end.ret]
           /\ pc' = [pc EXCEPT ![p] = "done"]
    /\ UNCHANGED <<cache, now, ncalls, prev, args, cache_session, kwargs, prompted,
                   stored>>

\* ------------------------------------------------------- get_account_id
GetAccountIdArgs ==
    { [op |-> "get_account_id", credentials |-> [AccessKeyId |-> "AKIA1"]] }
    \cup { [op |-> "get_account_id",
            credentials |-> [AccessKeyId |-> "AKIA1", Region |-> r]] : r \in Regions }

CallGetAccountId(p) ==
    /\ SingleThreaded(p)
    /\ \E a \in GetAccountIdArgs : Begin(p, a, "gai_client")

\* credentials.get('Region', 'us-east-1')
RegionOf(credentials) ==
    IF "Region" \in DOMAIN credentials THEN credentials.Region ELSE "us-east-1"

\* lines 94-99, 102-103: build the STS client inside the try block
GaiClient(p) ==
    /\ pc[p] = "gai_client"
    /\ \E c \in ClientOutcomes :
        /\ log' = [log EXCEPT ![p] = Append(@, "client")]
        /\ kwargs' = [kwargs EXCEPT ![p] = [region_name |-> RegionOf(args[p].credentials)]]
        /\ IF c = "client"
           THEN /\ pc' = [pc EXCEPT ![p] = "gai_remote"]
                /\ UNCHANGED ret
           ELSE /\ pc' = [pc EXCEPT ![p] = "done"]
                /\ ret' = [ret EXCEPT ![p] = Returned("Unavailable")]
    /\ UNCHANGED <<issued, cache, now, ncalls, prev, args, cache_session, prompted, request,
                   outcome, session, stored, stdout>>

\* what get_caller_identity can come back with
IdentityOutcomes ==
    { [raised |-> TRUE, message |-> m] : m \in ErrorMessages }
    \cup { [raised |-> FALSE, response |-> EmptyDict] }
    \cup { [raised |-> FALSE, response |-> [Account |-> a]] : a \in AccountIds }

\* lines 100-103 with response.get('Account') given no default
AccountOfNoDefault(o) ==
    IF o.raised THEN "Unavailable"
    ELSE IF "Account" \in DOMAIN o.response THEN o.response.Account
    ELSE None

\* lines 100-103: response.get('Account', 'Unavailable'), or 'Unavailable'
AccountOf(o) ==
    IF o.raised THEN "Unavailable"
    ELSE IF "Account" \in DOMAIN o.response THEN o.response.Account
    ELSE "Unavailable"

\* lines 100-103: the remote call
GaiRemote(p) ==
    /\ pc[p] = "gai_remote"
    /\ \E o \in IdentityOutcomes :
        /\ request' = [request EXCEPT ![p] = EmptyDict]
        /\ outcome' = [outcome EXCEPT ![p] = o]
        /\ log' = [log EXCEPT ![p] = Append(@, "remote")]
        /\ ret' = [ret EXCEPT ![p] = Returned(AccountOf(o))]
        /\ pc' = [pc EXCEPT ![p] = "done"]
    /\ UNCHANGED <<issued, cache, now, ncalls, prev, args, cache_session, kwargs, prompted,
                   session, stored, stdout>>

\* --------------------------------------------------------- back to idle
\* what the call that just ended fetched and stored, if it did
Summary(p) ==
    IF stored[p]
    THEN [op |-> args[p].op, source_credentials |-> args[p].source_credentials,
          value |-> ret[p].value]
    ELSE NoPrev

\* the caller takes the result; the invocation's frame is gone
Finish(p) ==
    /\ pc[p] = "done"
    /\ prev' = Summary(p)
    /\ pc' = [pc EXCEPT ![p] = "idle"]
    /\ args' = [args EXCEPT ![p] = NoArgs]
    /\ cache_session' = [cache_session EXCEPT ![p] = EmptyDict]
    /\ kwargs' = [kwargs EXCEPT ![p] = EmptyDict]
    /\ prompted' = [prompted EXCEPT ![p] = None]
    /\ request' = [request EXCEPT ![p] = EmptyDict]
    /\ outcome' = [outcome EXCEPT ![p] = NoOutcome]
    /\ session' = [session EXCEPT ![p] = EmptyDict]
    /\ stored' = [stored EXCEPT ![p] = FALSE]
    /\ log' = [log EXCEPT ![p] = <<>>]
    /\ stdout' = [stdout EXCEPT ![p] = <<>>]
    /\ ret' = [ret EXCEPT ![p] = NoRet]
    /\ UNCHANGED <<issued, cache, now, ncalls>>

Next ==
    \/ Tick
    \/ \E p \in Procs : CallGetSessionToken(p)
    \/ \E p \in Procs : GstCache(p)
    \/ \E p \in Procs : GstClient(p)
    \/ \E p \in Procs : GstArgs(p)
    \/ \E p \in Procs : GstRemote(p)
    \/ \E p \in Procs : GstStore(p)
    \/ \E p \in Procs : CallAssumeRole(p)
    \/ \E p \in Procs : ArClient(p)
    \/ \E p \in Procs : ArArgs(p)
    \/ \E p \in Procs : ArRemote(p)
    \/ \E p \in Procs : CallGetAccountId(p)
    \/ \E p \in Procs : GaiClient(p)
    \/ \E p \in Procs : GaiRemote(p)
    \/ \E p \in Procs : Finish(p)

Spec == Init /\ [][Next]_vars

\* ------------------------------------------- concurrent get_session_token
\* the embedding application calls get_session_token from two threads for
\* the same source credentials; the threads interleave at the blocking calls
ConcurrentArgs ==
    { a \in GetSessionTokenArgs :
        /\ a.source_credentials.AccessKeyId = "AKIA1"
        /\ a.mfa_serial = None
        /\ a.mfa_token = None }

ConcurrentGetSessionToken(p) ==
    \E a \in ConcurrentArgs : Begin(p, a, "gst_cache")

ConcNext ==
    \/ Tick
    \/ \E p \in Procs : ConcurrentGetSessionToken(p)
    \/ \E p \in Procs : GstCache(p)
    \/ \E p \in Procs : GstClient(p)
    \/ \E p \in Procs : GstArgs(p)
    \/ \E p \in Procs : GstRemote(p)
    \/ \E p \in Procs : GstStore(p)
    \/ \E p \in Procs : Finish(p)

ConcSpec == Init /\ [][ConcNext]_vars

\* ======================================================== the properties
IsGst(p) == args[p].op = "get_session_token"
IsAr(p) == args[p].op = "assume_role"
IsGai(p) == args[p].op = "get_account_id"

\* the collaborators an invocation has called so far
Events(p) == { log[p][i] : i \in DOMAIN log[p] }
Count(p, e) == Cardinality({ i \in DOMAIN log[p] : log[p][i] = e })
Before(p, e, f) ==
    \E i, j \in DOMAIN log[p] : i < j /\ log[p][i] = e /\ log[p][j] = f

\* the cache step of get_session_token is behind the invocation
Checked(p) == IsGst(p) /\ pc[p] # "gst_cache"

NameOf(p) == cache_file_name(args[p].source_credentials)

\* C1: a get_session_token call with ignore_cache false that reads a valid
\* record returns exactly that record (its stored Region included), prints
\* one notification, and calls neither the prompt nor the remote service nor
\* the cache write; the record in the cache is still the one it read.
C1_CacheHitReturnsRecord ==
    \A p \in Procs :
        (/\ Checked(p)
         /\ ~args[p].ignore_cache
         /\ valid_cache_session(cache_session[p], now))
        => /\ pc[p] = "done"
           /\ ret[p] = Returned(cache_session[p])
           /\ log[p] = <<"cache_read", "print">>
           /\ Len(stdout[p]) = 1
           /\ read_aws_cache(cache, NameOf(p)) = cache_session[p]

\* a cache hit whose stored Region is not the region of the request
C1_Witness ==
    \E p \in Procs :
        /\ Checked(p)
        /\ ~args[p].ignore_cache
        /\ valid_cache_session(cache_session[p], now)
        /\ pc[p] = "done"
        /\ ret[p].kind = "return"
        /\ ret[p].value.Region # args[p].region

\* the call before this one fetched a session for the same source
\* credentials and stored it, and that session has not expired
AfterFreshFetch(p) ==
    /\ Checked(p)
    /\ ~args[p].ignore_cache
    /\ prev.op = "get_session_token"
    /\ prev.source_credentials = args[p].source_credentials
    /\ prev.value.Expiration.t > now

\* C2: a get_session_token call made right after one that fetched and stored
\* a session for the same source credentials, while that session's
\* Expiration is in the future, does not call the remote service and returns
\* the credentials the first call returned.
C2_SecondCallServedFromCache ==
    \A p \in Procs :
        AfterFreshFetch(p)
        => /\ pc[p] = "done"
           /\ "remote" \notin Events(p)
           /\ ret[p] = Returned(prev.value)

\* a second call that ended after a first one populated the cache
C2_Witness ==
    \E p \in Procs : AfterFreshFetch(p) /\ pc[p] = "done"

\* a finished get_session_token call with ignore_cache that read a valid record
IgnoredValidRecord(p) ==
    /\ Checked(p)
    /\ pc[p] = "done"
    /\ args[p].ignore_cache
    /\ valid_cache_session(cache_session[p], now)

ClientFailed(p) ==
    /\ pc[p] = "done"
    /\ "client" \in Events(p)
    /\ "remote" \notin Events(p)
    /\ "print" \notin Events(p)

\* the remote call of the invocation has been made
Called(p) == "remote" \in Events(p)

\* C4: assume_role never reads and never writes the cache: while an
\* assume_role call is running no step changes the cache store, the call
\* makes no cache read and no cache write, and every call that gets past the
\* construction of its client makes the remote call.
C4_AssumeRoleLeavesCache ==
    /\ [](\A p \in Procs :
            IsAr(p) =>
                /\ "cache_read" \notin Events(p)
                /\ "cache_write" \notin Events(p)
                /\ cache_session[p] = EmptyDict
                /\ (pc[p] = "done" /\ ~ClientFailed(p)) => Count(p, "remote") = 1)
    /\ [][\A p \in Procs : IsAr(p) => cache' = cache]_vars

\* an assume_role call that returned credentials while a record was cached
C4_Witness ==
    \E p \in Procs :
        /\ IsAr(p)
        /\ pc[p] = "done"
        /\ ret[p].kind = "return"
        /\ Called(p)
        /\ \E n \in CacheFileNames : cache[n] # EmptyDict

\* the remote call failed: an error raised, or a response without
\* Credentials, or Credentials without Expiration
RemoteFailed(o) ==
    \/ o.raised
    \/ "Credentials" \notin DOMAIN o.response
    \/ "Expiration" \notin DOMAIN o.response.Credentials

\* the text of the error under a failed remote call
UnderlyingMessage(o) ==
    IF o.raised THEN o.message
    ELSE IF "Credentials" \notin DOMAIN o.response
    THEN "'NoneType' object is not subscriptable"
    ELSE "'Expiration'"

\* C5: when the remote assume-role call fails, assume_role ends with
\* RoleAuthenticationError carrying the message of the underlying error; it
\* returns no credentials and prints no notification.
C5_AssumeRoleFailure ==
    \A p \in Procs :
        (IsAr(p) /\ Called(p) /\ RemoteFailed(outcome[p]))
        => /\ pc[p] = "done"
           /\ ret[p] = Raised("RoleAuthenticationError", UnderlyingMessage(outcome[p]))
           /\ "print" \notin Events(p)
           /\ stdout[p] = <<>>
           /\ session[p] = EmptyDict

\* an assume_role call whose remote call raised AccessDenied
C5_Witness ==
    \E p \in Procs :
        /\ IsAr(p)
        /\ Called(p)
        /\ outcome[p].raised
        /\ outcome[p].message = "AccessDenied"
        /\ ret[p].kind = "raise"
        /\ ret[p].message = "AccessDenied"

\* C6: when the remote get-session-token call fails, get_session_token ends
\* with UserAuthenticationError carrying the message of the underlying
\* error; no other error kind comes out of the remote step and no
\* credentials are returned.
C6_SessionTokenFailure ==
    \A p \in Procs :
        (IsGst(p) /\ Called(p) /\ RemoteFailed(outcome[p]))
        => /\ pc[p] = "done"
           /\ ret[p] = Raised("UserAuthenticationError", UnderlyingMessage(outcome[p]))
           /\ session[p] = EmptyDict

\* a get_session_token call whose response had Credentials without Expiration
C6_Witness ==
    \E p \in Procs :
        /\ IsGst(p)
        /\ Called(p)
        /\ ~outcome[p].raised
        /\ "Credentials" \in DOMAIN outcome[p].response
        /\ "Expiration" \notin DOMAIN outcome[p].response.Credentials
        /\ ret[p].kind = "raise"

\* C7: get_account_id never raises; it returns "Unavailable" when building
\* the client or the remote call fails or the response has no Account, and
\* the response's Account otherwise.
C7_AccountIdNeverRaises ==
    \A p \in Procs :
        IsGai(p) =>
            /\ ret[p].kind # "raise"
            /\ pc[p] = "done" =>
                /\ ret[p].kind = "return"
                /\ IF /\ Called(p)
                      /\ ~outcome[p].raised
                      /\ "Account" \in DOMAIN outcome[p].response
                   THEN ret[p].value = outcome[p].response.Account
                   ELSE ret[p].value = "Unavailable"

\* get_account_id calls that ended after a raised error, after a response
\* without Account ...
C7_Witness ==
    \E p \in Procs :
        /\ IsGai(p)
        /\ pc[p] = "done"
        /\ Called(p)
        /\ ~outcome[p].raised
        /\ "Account" \notin DOMAIN outcome[p].response
        /\ ret[p] = Returned("Unavailable")

\* an MFA serial was given; no MFA token was given (absent or empty)
SerialGiven(p) == args[p].mfa_serial \notin {None, EmptyStr}
TokenGiven(p) == args[p].mfa_token \notin {None, EmptyStr}

\* C8: in an assume_role call with an MFA serial and no MFA token, the
\* prompt is called at most once, and when the remote call is made the
\* prompt has been called exactly once, before it, and its result is the
\* TokenCode the remote service received.
C8_PromptOnceBeforeRemote ==
    \A p \in Procs :
        (IsAr(p) /\ SerialGiven(p) /\ ~TokenGiven(p))
        => /\ Count(p, "prompt") <= 1
           /\ (pc[p] = "done" /\ ~ClientFailed(p)) => Called(p)
           /\ Called(p) =>
                /\ Count(p, "prompt") = 1
                /\ Count(p, "remote") = 1
                /\ Before(p, "prompt", "remote")
                /\ prompted[p] \in PromptTokens
                /\ request[p].TokenCode = prompted[p]
                /\ request[p].SerialNumber = args[p].mfa_serial

\* an assume_role call that prompted for the token and then called the service
C8_Witness ==
    \E p \in Procs :
        /\ IsAr(p)
        /\ SerialGiven(p)
        /\ args[p].mfa_token = None
        /\ Called(p)
        /\ "prompt" \in Events(p)

\* the invocation returned the cached session, without a remote call
ServedFromCache(p) ==
    /\ IsGst(p)
    /\ pc[p] = "done"
    /\ ~Called(p)
    /\ ret[p] = Returned(cache_session[p])

\* C9: in assume_role and get_session_token the prompt is called only when
\* an MFA serial is given and the MFA token is absent or empty; with no
\* serial, with a non-empty token (which is then the TokenCode sent), or on
\* a call served from the cache, it is not called.
C9_PromptOnlyWhenNeeded ==
    \A p \in Procs :
        (IsAr(p) \/ IsGst(p))
        => /\ "prompt" \in Events(p) => (SerialGiven(p) /\ ~TokenGiven(p))
           /\ "prompt" \notin Events(p) => prompted[p] = None
           /\ (Called(p) /\ SerialGiven(p) /\ TokenGiven(p))
                => request[p].TokenCode = args[p].mfa_token
           /\ ServedFromCache(p) => "prompt" \notin Events(p)

\* a get_session_token call given an empty token that prompted for one
C9_Witness ==
    \E p \in Procs :
        /\ IsGst(p)
        /\ Called(p)
        /\ SerialGiven(p)
        /\ args[p].mfa_token = EmptyStr
        /\ "prompt" \in Events(p)
        /\ request[p].TokenCode = prompted[p]

\* the credential fields of the session are those of the response
Fetched(value, o) ==
    \A f \in {"AccessKeyId", "SecretAccessKey", "SessionToken"} :
        /\ f \in DOMAIN value
        /\ value[f] = o.response.Credentials[f]

\* C10: when the remote get-session-token call succeeds, get_session_token
\* returns the fetched credentials, whether or not the cache write went
\* through.
C10_WriteFailureStillReturns ==
    \A p \in Procs :
        (IsGst(p) /\ Called(p) /\ ~RemoteFailed(outcome[p]))
        => /\ pc[p] \in {"gst_store", "done"}
           /\ ret[p].kind # "raise"
           /\ pc[p] = "done" =>
                /\ "cache_write" \in Events(p)
                /\ ret[p] = Returned(session[p])
                /\ Fetched(ret[p].value, outcome[p])
                /\ ret[p].value.Expiration.t = outcome[p].response.Credentials.Expiration.t

\* the storage write failed and the call returned the session all the same
C10_Witness ==
    \E p \in Procs :
        /\ IsGst(p)
        /\ pc[p] = "done"
        /\ "cache_write" \in Events(p)
        /\ ~stored[p]
        /\ ret[p].kind = "return"
        /\ read_aws_cache(cache, NameOf(p)) # ret[p].value

\* both threads are in a get_session_token call for the same source credentials
Concurrent ==
    /\ \A p \in Procs : IsGst(p)
    /\ \A p, q \in Procs : NameOf(p) = NameOf(q)

\* the invocation read no valid record, fetched a session and has ended
FetchedItself(p) ==
    /\ IsGst(p)
    /\ pc[p] = "done"
    /\ Called(p)
    /\ ret[p].kind = "return"

\* the step is the cache write of invocation p going through
WriteBy(p) == pc[p] = "gst_store" /\ pc'[p] = "done" /\ stored'[p]

\* C11: concurrent get_session_token calls for the same AccessKeyId are not
\* serialised.  Each call that contacts the remote service returns the
\* session it fetched itself; the record under the key changes only at a
\* cache write, which leaves exactly the writer's session there, so after
\* both calls the record is the session of the call that wrote last, one of
\* the two and never a mixture.
C11_LastWriterWins ==
    /\ [](\A p \in Procs :
            FetchedItself(p) =>
                /\ ret[p] = Returned(session[p])
                /\ Fetched(ret[p].value, outcome[p])
                /\ \A q \in Procs \ {p} :
                     FetchedItself(q) => ret[q].value # ret[p].value)
    /\ []((Concurrent /\ \A p \in Procs : FetchedItself(p) /\ stored[p])
            => \E p \in Procs : read_aws_cache(cache, NameOf(p)) = ret[p].value)
    /\ [][\A p \in Procs :
            WriteBy(p) => read_aws_cache(cache', NameOf(p)) = ret'[p].value]_vars
    /\ [][cache' # cache => \E p \in Procs : WriteBy(p)]_vars

\* both calls started from an empty cache, both contacted the remote service,
\* and the call that fetched first wrote last: its session is the record
C11_Witness ==
    /\ Concurrent
    /\ \A p \in Procs :
        /\ FetchedItself(p)
        /\ stored[p]
        /\ cache_session[p] = EmptyDict
        /\ ~args[p].ignore_cache
    /\ ret["main"].value.AccessKeyId = <<"ASIA", 0>>
    /\ ret["other"].value.AccessKeyId = <<"ASIA", 1>>
    /\ read_aws_cache(cache, NameOf("main")) = ret["main"].value

\* C12: an invocation of assume_role, get_session_token or get_account_id
\* makes at most one remote call and at most one prompt, whatever path it
\* takes; once it has failed it makes no further call; get_account_id never
\* prompts.
C12_OneRoundTripOnePrompt ==
    \A p \in Procs :
        /\ Count(p, "remote") <= 1
        /\ Count(p, "prompt") <= 1
        /\ Count(p, "client") <= 1
        /\ ret[p].kind = "raise" => pc[p] = "done"
        /\ IsGai(p) => ("prompt" \notin Events(p) /\ prompted[p] = None)

\* a get_session_token call that prompted, called the service once and failed
C12_Witness ==
    \E p \in Procs :
        /\ IsGst(p)
        /\ pc[p] = "done"
        /\ ret[p].kind = "raise"
        /\ ret[p].etype = "UserAuthenticationError"
        /\ Count(p, "prompt") = 1
        /\ Count(p, "remote") = 1

\* C13 as stated: a get_session_token call with ignore_cache true makes no
\* cache read.
C13_NoReadWhenIgnored ==
    \A p \in Procs :
        (IsGst(p) /\ args[p].ignore_cache) => "cache_read" \notin Events(p)

\* C13, amended: every get_session_token call reads the cache first, once,
\* whatever ignore_cache is (the read comes before the flag is looked at);
\* with ignore_cache true only the use of what was read is skipped: the call
\* holds the record that is stored and does not return it.
C13_ReadAlwaysUseOnlyWhenAllowed ==
    \A p \in Procs :
        Checked(p)
        => /\ Len(log[p]) >= 1
           /\ log[p][1] = "cache_read"
           /\ Count(p, "cache_read") = 1
           /\ "cache_write" \notin Events(p)
                => cache_session[p] = read_aws_cache(cache, NameOf(p))
           /\ args[p].ignore_cache =>
                /\ ~ServedFromCache(p)
                /\ ret[p].kind = "return" => (Called(p) /\ ret[p] = Returned(session[p]))

\* ignore_cache set: the call read a valid record all the same and went on to
\* the remote service
C13_Witness ==
    \E p \in Procs :
        /\ IgnoredValidRecord(p)
        /\ log[p][1] = "cache_read"
        /\ cache_session[p] # EmptyDict
        /\ Called(p)
        /\ ret[p].kind = "return"

\* the get_session_token call went through the remote service and returned
SucceededRemotely(p) ==
    /\ IsGst(p)
    /\ pc[p] = "done"
    /\ Called(p)
    /\ ret[p].kind = "return"

C15_MfaFieldsOnlyWithSerial ==
    \A p \in Procs :
        (IsGst(p) /\ Called(p))
        => IF SerialGiven(p)
           THEN /\ {"SerialNumber", "TokenCode"} \subseteq DOMAIN request[p]
                /\ request[p].SerialNumber = args[p].mfa_serial
           ELSE DOMAIN request[p] \cap {"SerialNumber", "TokenCode"} = {}

\* field f is in the request exactly when it was given, with the given value
CarriedIff(p, f, given, v) ==
    /\ (f \in DOMAIN request[p]) <=> given
    /\ given => request[p][f] = v

\* C16: the request assume_role sends always has RoleSessionName and
\* RoleArn; ExternalId exactly when a non-empty external id was given;
\* DurationSeconds exactly when a non-zero duration was given; SerialNumber
\* and TokenCode, both or neither, exactly when an MFA serial was given.  A
\* successful call returns the session with the request's region and prints
\* exactly one notification.
C16_AssumeRoleRequest ==
    \A p \in Procs :
        (IsAr(p) /\ Called(p))
        => /\ request[p] = kwargs[p]
           /\ {"RoleSessionName", "RoleArn"} \subseteq DOMAIN request[p]
           /\ request[p].RoleSessionName = args[p].session_name
           /\ request[p].RoleArn = args[p].role_arn
           /\ CarriedIff(p, "ExternalId",
                         args[p].external_id \notin {None, EmptyStr}, args[p].external_id)
           /\ CarriedIff(p, "DurationSeconds",
                         args[p].role_duration \notin {<<>>, <<0>>},
                         Head(args[p].role_duration))
           /\ CarriedIff(p, "SerialNumber", SerialGiven(p), args[p].mfa_serial)
           /\ ("TokenCode" \in DOMAIN request[p]) <=> SerialGiven(p)
           /\ ret[p].kind = "return" =>
                /\ "Region" \in DOMAIN ret[p].value
                /\ ret[p].value.Region = args[p].region
                /\ Count(p, "print") = 1
                /\ Len(stdout[p]) = 1

\* an assume_role call given an external id, a zero duration and an MFA
\* serial, which succeeded
C16_Witness ==
    \E p \in Procs :
        /\ IsAr(p)
        /\ Called(p)
        /\ ret[p].kind = "return"
        /\ args[p].external_id = "ext"
        /\ args[p].role_duration = <<0>>
        /\ SerialGiven(p)
        /\ DOMAIN request[p] =
             {"RoleSessionName", "RoleArn", "ExternalId", "SerialNumber", "TokenCode"}

\* a complete record whose Expiration the instant has reached or passed
Stale(record, instant) ==
    /\ RequiredFields \subseteq DOMAIN record
    /\ record.Expiration.t <= instant

\* the step is the cache step of invocation p
CacheStepOf(p) == pc[p] = "gst_cache" /\ pc'[p] # "gst_cache"

\* a get_session_token call without ignore_cache that read a complete
\* record and did not take it: the record had expired when it was read
RefetchAfterStale(p) ==
    /\ Checked(p)
    /\ ~args[p].ignore_cache
    /\ RequiredFields \subseteq DOMAIN cache_session[p]
    /\ ~ServedFromCache(p)

FailedUserAuthentication(p) ==
    /\ IsGst(p)
    /\ ret[p].kind = "raise"
    /\ ret[p].etype = "UserAuthenticationError"

\* C18: a get_session_token call that ends with UserAuthenticationError has
\* made no cache write and printed no notification; the record under its
\* key, valid or expired or absent, is the one the call read.
C18_FailureLeavesCache ==
    \A p \in Procs :
        FailedUserAuthentication(p)
        => /\ pc[p] = "done"
           /\ "cache_write" \notin Events(p)
           /\ ~stored[p]
           /\ "print" \notin Events(p)
           /\ stdout[p] = <<>>
           /\ read_aws_cache(cache, NameOf(p)) = cache_session[p]
           /\ cache[NameOf(p)] = SerializeSession(cache_session[p])

\* a call that bypassed a valid record and failed: the record is still there
C18_Witness ==
    \E p \in Procs :
        /\ FailedUserAuthentication(p)
        /\ IgnoredValidRecord(p)
        /\ read_aws_cache(cache, NameOf(p)) = cache_session[p]
        /\ ~outcome[p].raised
        /\ "Credentials" \in DOMAIN outcome[p].response

\* "aws-credentials-" + the AccessKeyId the call was made with
OwnKey(p) == <<"aws-credentials-", args[p].source_credentials.AccessKeyId>>

\* C19: a get_session_token call reads and writes only the record under
\* "aws-credentials-" + its own AccessKeyId: a record changes only at the
\* cache write of a get_session_token call made with that record's key, what
\* a call reads is the record under its own key, and a call served from the
\* cache returns the record of its own key, which is the record of no other
\* key.
C19_KeyIsolation ==
    /\ [][\A n \in CacheFileNames :
            cache'[n] # cache[n]
            => \E p \in Procs :
                 /\ IsGst(p)
                 /\ OwnKey(p) = n
                 /\ pc[p] = "gst_store"
                 /\ pc'[p] = "done"]_vars
    /\ [](\A p \in Procs :
            Checked(p)
            => /\ "cache_write" \notin Events(p)
                    => cache_session[p] = read_aws_cache(cache, OwnKey(p))
               /\ ServedFromCache(p) =>
                    /\ ret[p].value = read_aws_cache(cache, OwnKey(p))
                    /\ \A n \in CacheFileNames \ {OwnKey(p)} :
                         read_aws_cache(cache, n) # ret[p].value)

\* a valid record is stored under one key; a call made with the other key
\* found nothing under its own, fetched a session and stored it there
C19_Witness ==
    \E p \in Procs :
        \E n \in CacheFileNames :
            /\ Checked(p)
            /\ n # OwnKey(p)
            /\ ~args[p].ignore_cache
            /\ pc[p] = "done"
            /\ valid_cache_session(read_aws_cache(cache, n), now)
            /\ cache_session[p] = EmptyDict
            /\ stored[p]
            /\ read_aws_cache(cache, OwnKey(p)) = ret[p].value

====
